---- MODULE Spec2Model ----
(***************************************************************************)
(* A model of two parts of remoc:                                          *)
(*                                                                         *)
(*   - the local port allocator, chmux/port_allocator.rs: PortAllocator,   *)
(*     PortAllocatorInner and the Drop implementation of PortNumber;       *)
(*   - the remoting glue of the watch channel, rch/watch/mod.rs: the       *)
(*     send-side driver send_impl and the receive-side driver recv_impl.   *)
(*                                                                         *)
(* The allocator runs under Spec (FairSpec for liveness), the watch        *)
(* drivers under WatchSpec (WatchFairSpec for liveness).  Each of the      *)
(* specifications leaves the variables of the other part untouched.        *)
(***************************************************************************)
EXTENDS Integers, Sequences, FiniteSets, TLC

(***************************************************************************)
(* Bounds of the model.                                                    *)
(***************************************************************************)
\* Largest limit a PortAllocator is created with.
MaxLimit == 2
\* Number of concurrently running tasks (threads) that use the allocator.
NumTasks == 2
\* Largest number of senders of abandoned allocate() calls queued in notify_tx
\* at a time (a cancelled allocate() leaves its sender behind until a drop).
MaxAbandoned == 1

\* The tasks using one allocator.
Tasks == 1 .. NumTasks
\* The port numbers rand::random() can return: u32 in the code, here a range
\* that always keeps a free number for an allocator with room.
PortNumbers == 0 .. MaxLimit
\* "No port number": allocate() has not returned, try_allocate() returned None.
NoNum == -1
\* A one-shot sender whose receiver has been dropped.
Closed == 0

VARIABLES
    \* PortAllocatorInner
    limit,      \* limit: u32
    used,       \* used: HashSet<u32>
    \* notify_tx: Vec<oneshot::Sender<()>>.  A sender is given by the state of
    \* its channel: the task that awaits its receiver, or Closed.
    notify_tx,
    \* The PortNumber objects alive: live[n] is how many of them carry number n.
    live,
    \* The tasks whose one-shot receiver holds a value not yet received.
    sent,
    \* Per task: "idle", "wait" while it awaits its receiver in allocate(), or
    \* "signal" inside PortNumber::drop after its locked block.
    pc,
    \* Per task inside PortNumber::drop: the senders it took from notify_tx
    \* and has not yet sent on (the local notify_tx of drop).
    taken,
    \* The last step taken: the operation, its task, the number it returned or
    \* released and, for an iteration of the loop of drop, the sender sent on.
    last

allocVars == <<limit, used, notify_tx, live, sent, pc, taken, last>>


VARIABLES
    \* Sending endpoint: the local watch (its version counts the values
    \* published, `sval` is the value it holds), whether its Sender exists,
    \* and the error queue remote_send_err_tx feeds.
    version, sval, senderAlive, errq_s,
    \* send_impl: where it stands ("select", "sending" inside
    \* remote_tx.send(value).await, "done"), the version its rx has seen and
    \* the value it is sending.
    s_pc, s_seen, s_cur,
    \* The chmux port: data messages towards the receiving endpoint,
    \* back-channel messages towards the sending endpoint, and the connection.
    data, back, conn,
    \* Receiving endpoint: the local watch value, whether a local watch
    \* Receiver exists, the error queue remote_send_err_rx reads, current_err.
    rval, receiversAlive, errq_r, current_err,
    \* recv_impl: where it stands ("select", "publish" with the result of
    \* remote_rx.recv() in hand, "back_q" and "back_cur" inside
    \* raw_tx.send(..).await of the two error arms, "done") and that result.
    r_pc, r_res,
    \* Events from outside so far, and the last step of the watch model.
    outside, wlast

watchVars == <<version, sval, senderAlive, errq_s, s_pc, s_seen, s_cur, data, back, conn,
               rval, receiversAlive, errq_r, current_err, r_pc, r_res, outside, wlast>>

vars == <<allocVars, watchVars>>

(***************************************************************************)
(* PortAllocatorInner                                                      *)
(***************************************************************************)
\* PortAllocatorInner::is_available.
is_available == Cardinality(used) <= limit

\* A candidate loop without the `!self.used.contains(&cand)` test.
CandidatesUnchecked == PortNumbers

\* The numbers the candidate loop of try_allocate can end with: any number
\* rand::random() returns that is not in use.
Candidates == PortNumbers \ used

Event(op, t, num, tx) == [op |-> op, t |-> t, num |-> num, tx |-> tx]

\* PortAllocatorInner::try_allocate: Some(number), with the number inserted
\* into used and a PortNumber made for it, or None.
try_allocate(number) ==
    IF is_available
    THEN /\ number \in Candidates
         /\ used' = used \cup {number}
         /\ live' = [live EXCEPT ![number] = @ + 1]
    ELSE /\ number = NoNum
         /\ UNCHANGED <<used, live>>

\* The body of the loop of allocate(): under the lock, try_allocate; on
\* Some(number) return it, on None push the sender of a new one-shot channel
\* and go on to await its receiver.
AllocateLocked(t, op) ==
    \E number \in PortNumbers \cup {NoNum} :
        /\ try_allocate(number)
        /\ last' = Event(op, t, number, Closed)
        /\ IF number # NoNum
           THEN /\ pc' = [pc EXCEPT ![t] = "idle"]
                /\ UNCHANGED notify_tx
           ELSE /\ notify_tx' = Append(notify_tx, t)
                /\ pc' = [pc EXCEPT ![t] = "wait"]

\* PortAllocator::allocate, from the call to its return or its first await.
Allocate(t) ==
    /\ pc[t] = "idle"
    /\ AllocateLocked(t, "allocate")
    /\ UNCHANGED <<limit, sent, taken>>
    /\ UNCHANGED watchVars

\* PortAllocator::allocate, from the completion of rx.await to its return or
\* its next await.
AllocateResume(t) ==
    /\ pc[t] = "wait"
    /\ t \in sent
    /\ sent' = sent \ {t}
    /\ AllocateLocked(t, "resume")
    /\ UNCHANGED <<limit, taken>>
    /\ UNCHANGED watchVars

\* Whether sender x is among `txs`, and how many senders of `txs` are closed.
InSeq(txs, x) == \E i \in 1 .. Len(txs) : txs[i] = x

Abandoned(txs) == Cardinality({i \in 1 .. Len(txs) : txs[i] = Closed})

\* The senders `txs` after the receiver awaited by task t is dropped.
Close(txs, t) == [i \in 1 .. Len(txs) |-> IF txs[i] = t THEN Closed ELSE txs[i]]

\* The future of allocate() is dropped while it awaits: its receiver is
\* dropped with it, which closes the channel; the sender stays where it is.
AllocateCancel(t) ==
    /\ pc[t] = "wait"
    /\ InSeq(notify_tx, t) => Abandoned(notify_tx) < MaxAbandoned
    /\ pc' = [pc EXCEPT ![t] = "idle"]
    /\ sent' = sent \ {t}
    /\ notify_tx' = Close(notify_tx, t)
    /\ taken' = [w \in Tasks |-> Close(taken[w], t)]
    /\ last' = Event("cancel", t, NoNum, Closed)
    /\ UNCHANGED <<limit, used, live>>
    /\ UNCHANGED watchVars

\* PortAllocator::try_allocate.
TryAllocate(t) ==
    /\ pc[t] = "idle"
    /\ \E number \in PortNumbers \cup {NoNum} :
        /\ try_allocate(number)
        /\ last' = Event("try_allocate", t, number, Closed)
    /\ UNCHANGED <<limit, notify_tx, sent, pc, taken>>
    /\ UNCHANGED watchVars

(***************************************************************************)
(* impl Drop for PortNumber                                                *)
(***************************************************************************)
\* A drop that takes the first sender only and forgets the others.
TakeFirst == IF notify_tx = <<>> THEN <<>> ELSE <<Head(notify_tx)>>

\* mem::take(&mut inner.notify_tx): all the senders queued.
TakeAll == notify_tx

\* A drop that leaves its number in use.
RemoveNothing(number) == used

\* inner.used.remove(&self.number)
Remove(number) == used \ {number}

\* The locked block of PortNumber::drop: remove the number and take the
\* senders queued.
DropLocked(t, number) ==
    /\ pc[t] = "idle"
    /\ live[number] > 0
    /\ live' = [live EXCEPT ![number] = @ - 1]
    /\ used' = Remove(number)
    /\ taken' = [taken EXCEPT ![t] = TakeAll]
    /\ notify_tx' = <<>>
    /\ pc' = [pc EXCEPT ![t] = "signal"]
    /\ last' = Event("drop", t, number, Closed)
    /\ UNCHANGED <<limit, sent>>
    /\ UNCHANGED watchVars

\* One iteration of `for tx in notify_tx { let _ = tx.send(()); }`: the value
\* reaches the receiver; send() on a closed channel fails, which is ignored.
DropSignal(t) ==
    /\ pc[t] = "signal"
    /\ taken[t] # <<>>
    /\ sent' = sent \cup ({Head(taken[t])} \ {Closed})
    /\ taken' = [taken EXCEPT ![t] = Tail(@)]
    /\ last' = Event("signal", t, NoNum, Head(taken[t]))
    /\ UNCHANGED <<limit, used, notify_tx, live, pc>>
    /\ UNCHANGED watchVars

\* The loop of drop is over: drop returns.
DropReturn(t) ==
    /\ pc[t] = "signal"
    /\ taken[t] = <<>>
    /\ pc' = [pc EXCEPT ![t] = "idle"]
    /\ last' = Event("dropped", t, NoNum, Closed)
    /\ UNCHANGED <<limit, used, notify_tx, live, sent, taken>>
    /\ UNCHANGED watchVars

(***************************************************************************)
(* The allocator and its tasks                                             *)
(***************************************************************************)
\* PortAllocator::new(limit), and tasks that hold a clone of it.
AllocInit ==
    /\ limit \in 1 .. MaxLimit
    /\ used = {}
    /\ notify_tx = <<>>
    /\ live = [n \in PortNumbers |-> 0]
    /\ sent = {}
    /\ pc = [t \in Tasks |-> "idle"]
    /\ taken = [t \in Tasks |-> <<>>]
    /\ last = Event("new", 0, NoNum, Closed)

AllocNext ==
    \E t \in Tasks :
        \/ Allocate(t)
        \/ AllocateResume(t)
        \/ AllocateCancel(t)
        \/ TryAllocate(t)
        \/ \E number \in PortNumbers : DropLocked(t, number)
        \/ DropSignal(t)
        \/ DropReturn(t)

(***************************************************************************)
(* rch/watch: the two drivers of a remoted watch channel and their port    *)
(***************************************************************************)
\* Bounds of the watch model.
\* Number of values the local watch sender publishes.
MaxPublish == 2
\* Data messages the port buffers before remote_tx.send suspends (credits).
MaxData == 1
\* Back-channel messages the port buffers before raw_tx.send suspends.
MaxBack == 1
\* Capacity of the error queues, ERROR_QUEUE.  The source sets 16; the model
\* runs the drivers with a shorter queue so that a full queue is reached.
ERROR_QUEUE == 1
\* Number of events from outside the two drivers: errors reported into the
\* receive side's error queue and foreign back-channel messages.
MaxOutside == 1

\* What a published value does on its way: "ok" passes, "unser" fails to
\* serialize (an item-specific send error), "undec" fails to deserialize at
\* the receiving endpoint (a receive error that is not final).
Kinds == {"ok", "unser", "undec"}

\* Back-channel messages: the error tag alone, a non-empty message starting
\* with another byte, an empty message.
BackMsgs == {"error", "other", "empty"}
\* An error tag that is the first byte of other messages.
WrongErrorTag == "other"

BACKCHANNEL_MSG_ERROR == "error"


WEvent(op, flag) == [op |-> op, flag |-> flag]

Value(v, kind) == [v |-> v, kind |-> kind]

\* No value: nothing is being sent or handled.
NoValue == Value(0, "none")

\* A try_send that loses the error.
try_send_lost(queue, err) == queue

\* A send into the queue that ignores its capacity.
try_send_unbounded(queue, err) == Append(queue, err)

\* tokio::sync::mpsc::Sender::try_send: appended if the queue has room,
\* dropped if not.
try_send(queue, err) == IF Len(queue) < ERROR_QUEUE THEN Append(queue, err) ELSE queue

(***************************************************************************)
(* The endpoints around the drivers                                        *)
(***************************************************************************)
\* watch::Sender::send on the local watch of the sending endpoint.
Publish(kind) ==
    /\ senderAlive
    /\ version < MaxPublish
    /\ version' = version + 1
    /\ sval' = Value(version + 1, kind)
    /\ wlast' = WEvent("publish", FALSE)
    /\ UNCHANGED <<senderAlive, errq_s, s_pc, s_seen, s_cur, data, back, conn,
                   rval, receiversAlive, errq_r, current_err, r_pc, r_res, outside>>
    /\ UNCHANGED allocVars

\* The local watch Sender is dropped.
DropSender ==
    /\ senderAlive
    /\ senderAlive' = FALSE
    /\ wlast' = WEvent("drop_sender", FALSE)
    /\ UNCHANGED <<version, sval, errq_s, s_pc, s_seen, s_cur, data, back, conn,
                   rval, receiversAlive, errq_r, current_err, r_pc, r_res, outside>>
    /\ UNCHANGED allocVars

\* The last local watch Receiver of the receiving endpoint is dropped.
DropReceivers ==
    /\ receiversAlive
    /\ receiversAlive' = FALSE
    /\ wlast' = WEvent("drop_receivers", FALSE)
    /\ UNCHANGED <<version, sval, senderAlive, errq_s, s_pc, s_seen, s_cur, data, back, conn,
                   rval, errq_r, current_err, r_pc, r_res, outside>>
    /\ UNCHANGED allocVars

\* The connection is lost: what the port buffers is gone with it.
ConnectionLoss ==
    /\ conn = "up"
    /\ conn' = "down"
    /\ data' = <<>>
    /\ back' = <<>>
    /\ wlast' = WEvent("connection_loss", FALSE)
    /\ UNCHANGED <<version, sval, senderAlive, errq_s, s_pc, s_seen, s_cur,
                   rval, receiversAlive, errq_r, current_err, r_pc, r_res, outside>>
    /\ UNCHANGED allocVars

\* A holder of remote_send_err_tx of the receiving endpoint (the Receiver
\* channel() and its deserializer build, and the drivers forwarding it
\* onwards) reports an error: try_send into the queue recv_impl reads.
ReportError ==
    /\ outside < MaxOutside
    /\ outside' = outside + 1
    /\ errq_r' = try_send(errq_r, "Forward")
    /\ wlast' = WEvent("report_error", Len(errq_r) < ERROR_QUEUE)
    /\ UNCHANGED <<version, sval, senderAlive, errq_s, s_pc, s_seen, s_cur, data, back, conn,
                   rval, receiversAlive, current_err, r_pc, r_res>>
    /\ UNCHANGED allocVars

\* The remote endpoint sends a back-channel message that is not the error
\* tag: another first byte, or no byte at all.
ForeignBackMsg(msg) ==
    /\ outside < MaxOutside
    /\ conn = "up"
    /\ r_pc # "done"
    /\ Len(back) < MaxBack
    /\ outside' = outside + 1
    /\ back' = Append(back, msg)
    /\ wlast' = WEvent("foreign", FALSE)
    /\ UNCHANGED <<version, sval, senderAlive, errq_s, s_pc, s_seen, s_cur, data, conn,
                   rval, receiversAlive, errq_r, current_err, r_pc, r_res>>
    /\ UNCHANGED allocVars

(***************************************************************************)
(* send_impl                                                               *)
(***************************************************************************)
\* A select that does not look at the back channel before the value.
BackNeverReady == FALSE

\* raw_rx.recv() of send_impl is ready: a back-channel message is buffered,
\* the connection is lost, or recv_impl has ended and dropped its raw_tx.
BackReady == conn = "down" \/ back # <<>> \/ r_pc = "done"

\* First arm of the select, `Ok(Some(msg)) if msg.remaining() >= 1`: a
\* message starting with BACKCHANNEL_MSG_ERROR is turned into
\* RemoteSendError::Forward, any other is ignored; the loop goes on.
SendBackMsg ==
    /\ s_pc = "select"
    /\ conn = "up"
    /\ back # <<>>
    /\ Head(back) # "empty"
    /\ back' = Tail(back)
    /\ errq_s' = IF Head(back) = BACKCHANNEL_MSG_ERROR
                 THEN try_send(errq_s, "Forward")
                 ELSE errq_s
    /\ wlast' = WEvent("back_msg", Head(back) = BACKCHANNEL_MSG_ERROR)
    /\ UNCHANGED <<version, sval, senderAlive, s_pc, s_seen, s_cur, data, conn,
                   rval, receiversAlive, errq_r, current_err, r_pc, r_res, outside>>
    /\ UNCHANGED allocVars

\* First arm of the select, `_ => break`: an empty message, the end of the
\* stream (Ok(None)) or a receive error.
SendBackEnd ==
    /\ s_pc = "select"
    /\ BackReady
    /\ (conn = "up" /\ back # <<>>) => Head(back) = "empty"
    /\ back' = IF conn = "up" /\ back # <<>> THEN Tail(back) ELSE back
    /\ s_pc' = "done"
    /\ wlast' = WEvent("back_end", FALSE)
    /\ UNCHANGED <<version, sval, senderAlive, errq_s, s_seen, s_cur, data, conn,
                   rval, receiversAlive, errq_r, current_err, r_pc, r_res, outside>>
    /\ UNCHANGED allocVars

\* A read that returns the value the watch was created with.
borrow_initial == Value(0, "ok")

\* rx.borrow_and_update().clone(): the value the local watch holds now.
borrow_and_update == sval

\* Second arm, `Ok(())` of rx.changed(), taken only when the first arm is
\* not ready (biased): the value is read and marked seen, and
\* remote_tx.send(value) begins.
SendChanged ==
    /\ s_pc = "select"
    /\ ~BackReady
    /\ s_seen # version
    /\ s_seen' = version
    /\ s_cur' = borrow_and_update
    /\ s_pc' = "sending"
    /\ wlast' = WEvent("changed", FALSE)
    /\ UNCHANGED <<version, sval, senderAlive, errq_s, data, back, conn,
                   rval, receiversAlive, errq_r, current_err, r_pc, r_res, outside>>
    /\ UNCHANGED allocVars

\* Second arm, `Err(_) => break`: the local watch Sender is gone and every
\* value has been seen.
SendSenderGone ==
    /\ s_pc = "select"
    /\ ~BackReady
    /\ s_seen = version
    /\ ~senderAlive
    /\ s_pc' = "done"
    /\ wlast' = WEvent("sender_gone", FALSE)
    /\ UNCHANGED <<version, sval, senderAlive, errq_s, s_seen, s_cur, data, back, conn,
                   rval, receiversAlive, errq_r, current_err, r_pc, r_res, outside>>
    /\ UNCHANGED allocVars

\* remote_tx.send(value).await returns Ok: the value is serialized and
\* handed to the port, which takes it when it has room.
SendOk ==
    /\ s_pc = "sending"
    /\ s_cur.kind # "unser"
    /\ conn = "up"
    /\ r_pc # "done"
    /\ Len(data) < MaxData
    /\ data' = Append(data, s_cur)
    /\ s_cur' = NoValue
    /\ s_pc' = "select"
    /\ wlast' = WEvent("send_ok", FALSE)
    /\ UNCHANGED <<version, sval, senderAlive, errq_s, s_seen, back, conn,
                   rval, receiversAlive, errq_r, current_err, r_pc, r_res, outside>>
    /\ UNCHANGED allocVars

\* What send_impl does after a failed send with err.is_item_specific() = item.
BreakAfterSendError(item) == item

\* remote_tx.send(value).await returns Err: the value does not serialize
\* (item-specific), or the connection is lost or the remote receiver is
\* gone (not item-specific).  RemoteSendError::Send(kind) is try_sent.
SendErr ==
    /\ s_pc = "sending"
    /\ LET item == s_cur.kind = "unser" IN
        /\ item \/ conn = "down" \/ r_pc = "done"
        /\ errq_s' = try_send(errq_s, IF item THEN "SendItem" ELSE "SendClosed")
        /\ s_pc' = IF BreakAfterSendError(item) THEN "done" ELSE "select"
        /\ wlast' = WEvent("send_err", item)
    /\ s_cur' = NoValue
    /\ UNCHANGED <<version, sval, senderAlive, s_seen, data, back, conn,
                   rval, receiversAlive, errq_r, current_err, r_pc, r_res, outside>>
    /\ UNCHANGED allocVars

(***************************************************************************)
(* recv_impl                                                               *)
(***************************************************************************)
Result(v, st, final) == [v |-> v, st |-> st, final |-> final]

NoResult == Result(0, "none", FALSE)

\* A select that never finds the closure.
ClosedNeverReady == FALSE

\* tx.closed() of recv_impl is ready: no local watch Receiver is left.
ClosedReady == ~receiversAlive

\* First arm of the select, tx.closed(): no local watch Receiver is left.
RecvClosed ==
    /\ r_pc = "select"
    /\ ClosedReady
    /\ r_pc' = "done"
    /\ wlast' = WEvent("closed", FALSE)
    /\ UNCHANGED <<version, sval, senderAlive, errq_s, s_pc, s_seen, s_cur, data, back, conn,
                   rval, receiversAlive, errq_r, current_err, r_res, outside>>
    /\ UNCHANGED allocVars

\* Second arm, `Some(_) = remote_send_err_rx.recv()`: an entry is taken
\* from the error queue and raw_tx.send of the error byte begins.
RecvErrorQueue ==
    /\ r_pc = "select"
    /\ ~ClosedReady
    /\ errq_r # <<>>
    /\ errq_r' = Tail(errq_r)
    /\ r_pc' = "back_q"
    /\ wlast' = WEvent("error_queue", FALSE)
    /\ UNCHANGED <<version, sval, senderAlive, errq_s, s_pc, s_seen, s_cur, data, back, conn,
                   rval, receiversAlive, current_err, r_res, outside>>
    /\ UNCHANGED allocVars

\* Third arm, `ready(()), if current_err.is_some()`.
RecvCurrentErr ==
    /\ r_pc = "select"
    /\ ~ClosedReady
    /\ errq_r = <<>>
    /\ current_err
    /\ r_pc' = "back_cur"
    /\ wlast' = WEvent("current_err", FALSE)
    /\ UNCHANGED <<version, sval, senderAlive, errq_s, s_pc, s_seen, s_cur, data, back, conn,
                   rval, receiversAlive, errq_r, current_err, r_res, outside>>
    /\ UNCHANGED allocVars

\* A third arm that forgets to clear current_err.
CurrentErrKept(arm) == current_err

\* current_err after the error arm `arm` has sent its byte: the third arm
\* ends with `current_err = None`, the second leaves it alone.
CurrentErrAfter(arm) == IF arm = "back_cur" THEN FALSE ELSE current_err

\* raw_tx.send(vec![BACKCHANNEL_MSG_ERROR]).await returns: the byte is handed
\* to the port when it has room; without a connection or a remote receiver
\* the send fails and the failure is ignored.  The third arm then clears
\* current_err.
RecvBackSent ==
    /\ r_pc \in {"back_q", "back_cur"}
    /\ IF conn = "down" \/ s_pc = "done"
       THEN UNCHANGED back
       ELSE /\ Len(back) < MaxBack
            /\ back' = Append(back, BACKCHANNEL_MSG_ERROR)
    /\ current_err' = CurrentErrAfter(r_pc)
    /\ r_pc' = "select"
    /\ wlast' = WEvent("back_sent", conn = "up" /\ s_pc # "done")
    /\ UNCHANGED <<version, sval, senderAlive, errq_s, s_pc, s_seen, s_cur, data, conn,
                   rval, receiversAlive, errq_r, r_res, outside>>
    /\ UNCHANGED allocVars

\* remote_rx.recv() is ready: a data message is buffered, the connection is
\* lost, or send_impl has ended and dropped its remote_tx.
DataReady == conn = "down" \/ data # <<>> \/ s_pc = "done"

\* What remote_rx.recv() returns when it is ready: an error that is final
\* without a connection, the decoded value or the decode error of the next
\* message, the end of the stream.
RecvResult ==
    IF conn = "down" THEN Result(0, "err", TRUE)
    ELSE IF data = <<>> THEN Result(0, "end", FALSE)
    ELSE IF Head(data).kind = "undec" THEN Result(0, "err", FALSE)
    ELSE Result(Head(data).v, "ok", FALSE)

\* Fourth arm, remote_rx.recv(), taken only when no earlier arm is ready:
\* `Ok(None) => break`, otherwise the value or the error is kept for tx.send.
RecvData ==
    /\ r_pc = "select"
    /\ ~ClosedReady
    /\ errq_r = <<>>
    /\ ~current_err
    /\ DataReady
    /\ data' = IF conn = "up" /\ data # <<>> THEN Tail(data) ELSE data
    /\ IF RecvResult.st = "end"
       THEN /\ r_pc' = "done"
            /\ UNCHANGED r_res
       ELSE /\ r_pc' = "publish"
            /\ r_res' = RecvResult
    /\ wlast' = WEvent("recv", RecvResult.st = "err")
    /\ UNCHANGED <<version, sval, senderAlive, errq_s, s_pc, s_seen, s_cur, back, conn,
                   rval, receiversAlive, errq_r, current_err, outside>>
    /\ UNCHANGED allocVars

\* What the local watch holds after tx.send(value): Ok(value), or
\* Err(RecvError::RemoteReceive(err)) for a receive error.
Published(res) == [v |-> res.v, st |-> IF res.st = "err" THEN "RemoteReceive" ELSE "ok"]

\* A driver that goes on after a final error.
NeverBreakAfterPublish(res) == FALSE

\* Whether recv_impl ends after it has published res.
BreakAfterPublish(res) == res.final

\* `if tx.send(value).is_err() { break }` and `if is_final_err { break }`:
\* tx.send fails, and stores nothing, when no local Receiver is left.
RecvPublish ==
    /\ r_pc = "publish"
    /\ IF receiversAlive
       THEN /\ rval' = Published(r_res)
            /\ r_pc' = IF BreakAfterPublish(r_res) THEN "done" ELSE "select"
            /\ wlast' = WEvent(IF r_res.st = "err" THEN "publish_err" ELSE "publish_ok",
                               r_res.final)
       ELSE /\ r_pc' = "done"
            /\ wlast' = WEvent("publish_failed", r_res.final)
            /\ UNCHANGED rval
    /\ r_res' = NoResult
    /\ UNCHANGED <<version, sval, senderAlive, errq_s, s_pc, s_seen, s_cur, data, back, conn,
                   receiversAlive, errq_r, current_err, outside>>
    /\ UNCHANGED allocVars

(***************************************************************************)
(* The watch channel with both drivers running                             *)
(***************************************************************************)
\* channel(init), the receiver sent to the remote endpoint, and the two
\* drivers started on an open port; recv_impl starts with or without a
\* current_err.
WatchInit ==
    /\ version = 0
    /\ sval = Value(0, "ok")
    /\ senderAlive = TRUE
    /\ errq_s = <<>>
    /\ s_pc = "select"
    /\ s_seen = 0
    /\ s_cur = NoValue
    /\ data = <<>>
    /\ back = <<>>
    /\ conn = "up"
    /\ rval = [v |-> 0, st |-> "ok"]
    /\ receiversAlive = TRUE
    /\ errq_r = <<>>
    /\ current_err \in BOOLEAN
    /\ r_pc = "select"
    /\ r_res = NoResult
    /\ outside = 0
    /\ wlast = WEvent("start", FALSE)

WatchNext ==
    \/ \E kind \in Kinds : Publish(kind)
    \/ DropSender
    \/ DropReceivers
    \/ ConnectionLoss
    \/ ReportError
    \/ \E msg \in BackMsgs \ {BACKCHANNEL_MSG_ERROR} : ForeignBackMsg(msg)
    \/ SendBackMsg
    \/ SendBackEnd
    \/ SendChanged
    \/ SendSenderGone
    \/ SendOk
    \/ SendErr
    \/ RecvClosed
    \/ RecvErrorQueue
    \/ RecvCurrentErr
    \/ RecvBackSent
    \/ RecvData
    \/ RecvPublish

(***************************************************************************)
(* Specifications                                                          *)
(***************************************************************************)
\* The allocator alone: the watch channel stays as created.
Init == AllocInit /\ WatchInit /\ current_err = FALSE

Next == AllocNext

Spec == Init /\ [][Next]_vars

\* The watch channel alone: the allocator stays as created.
WatchSpecInit == WatchInit /\ AllocInit /\ limit = 1

WatchSpec == WatchSpecInit /\ [][WatchNext]_vars


\* The allocator with its tasks scheduled: a task whose receiver holds a
\* value goes on, and a drop that has begun runs to its end.
FairSpec ==
    /\ Spec
    /\ \A t \in Tasks :
        WF_vars(AllocateResume(t)) /\ WF_vars(DropSignal(t)) /\ WF_vars(DropReturn(t))

(***************************************************************************)
(* The port allocator: claims                                              *)
(***************************************************************************)
\* C1: with a limit of L the number of entries of `used`, the live port
\* numbers, is at most L in every reachable state.
C1_UsedWithinLimit == Cardinality(used) <= limit

\* C2: when all ports are in use (the number of live PortNumbers equals the
\* limit) a call of allocate() returns no PortNumber: it registers a one-shot
\* waiter and is suspended; and a suspended allocate() goes on only after
\* its one-shot signal was sent, which only a drop does.
C2_AllocateSuspendsWhenFull ==
    [][\A t \in Tasks :
        /\ (Cardinality(used) = limit /\ (Allocate(t) \/ AllocateResume(t)))
            => (pc'[t] = "wait" /\ used' = used /\ notify_tx' = Append(notify_tx, t))
        /\ (pc[t] = "wait" /\ pc'[t] # "wait" /\ ~AllocateCancel(t))
            => t \in sent]_vars

\* The liveness half of C3 alone: a suspended allocate() whose signal was
\* sent goes on, and returns unless it finds the allocator full again.
C3_SignalledWaiterGoesOn ==
    \A t \in Tasks : (pc[t] = "wait" /\ t \in sent) ~> (pc[t] = "idle" \/ t \notin sent)

\* C3: with limit = 2 and two live PortNumbers a task that calls allocate()
\* is a waiter; after a drop the waiter eventually resolves, with a number
\* no live PortNumber carries.
C3_AllocatorWait ==
    /\ [][\A t \in Tasks :
            /\ (limit = 2 /\ Cardinality(used) = 2 /\ Allocate(t)) => pc'[t] = "wait"
            /\ (AllocateResume(t) /\ pc'[t] = "idle") => last'.num \notin used]_vars
    /\ C3_SignalledWaiterGoesOn

\* C4: dropping a PortNumber signals every waiter pending at that moment:
\* the locked block leaves the queue empty and takes all of its senders, the
\* loop sends on each of them in turn, a closed one (an abandoned waiter)
\* included, and drop returns only when none is left.
C4_DropSignalsEveryWaiter ==
    [][\A t \in Tasks :
        /\ (\E n \in PortNumbers : DropLocked(t, n))
            => (notify_tx' = <<>> /\ taken'[t] = notify_tx)
        /\ DropSignal(t)
            => /\ taken'[t] = Tail(taken[t])
               /\ last'.tx = Head(taken[t])
               /\ Head(taken[t]) # Closed => Head(taken[t]) \in sent'
        /\ DropReturn(t) => taken[t] = <<>>]_vars

\* A drop has sent on a live waiter's sender and then on an abandoned one,
\* and has none left; the queue is empty.
C4_Witness ==
    /\ last.op = "signal"
    /\ last.tx = Closed
    /\ taken[last.t] = <<>>
    /\ sent # {}
    /\ notify_tx = <<>>

\* C5: try_allocate() never suspends and returns None exactly when the
\* number of live PortNumbers equals the limit; with None it leaves `used`
\* and the queue unchanged, with a PortNumber its number is in `used`.
C5_TryAllocateNoneIffFull ==
    [][\A t \in Tasks : TryAllocate(t) =>
        /\ pc'[t] = "idle"
        /\ (last'.num = NoNum) <=> (Cardinality(used) = limit)
        /\ last'.num = NoNum => (used' = used /\ notify_tx' = notify_tx)
        /\ last'.num # NoNum => last'.num \in used']_vars

\* C6: `used` is exactly the set of the numbers of the live PortNumbers, and
\* no two live PortNumbers carry the same number.
C6_UsedIsLiveNumbers ==
    /\ used = {n \in PortNumbers : live[n] > 0}
    /\ \A n \in PortNumbers : live[n] <= 1

\* A waiter has resumed after a drop and was given a number while another
\* PortNumber is alive.
C6_Witness ==
    /\ last.op = "resume"
    /\ last.num \in used
    /\ Cardinality(used) >= 2

\* C7: a drop removes exactly the number of the PortNumber dropped, which
\* was in `used` and carried by that PortNumber alone; every other live
\* number and the limit stay, and |used| goes down by exactly one.
C7_DropReleasesOwnNumber ==
    [][\A n \in PortNumbers : live'[n] < live[n] =>
        /\ live[n] = 1 /\ live'[n] = 0
        /\ n \in used
        /\ used' = used \ {n}
        /\ Cardinality(used') = Cardinality(used) - 1
        /\ \A m \in PortNumbers \ {n} : live'[m] = live[m]
        /\ limit' = limit]_vars

\* A PortNumber was dropped while another one stays alive.
C7_Witness ==
    /\ last.op = "drop"
    /\ last.num \notin used
    /\ used # {}

(***************************************************************************)
(* The watch drivers: claims                                               *)
(***************************************************************************)
\* C8: when send_impl fails to send a changed value, Send(kind) is enqueued
\* into the error queue (dropped if the queue is full); after an
\* item-specific failure the driver continues its loop, after a terminal
\* one it exits: it has ended, or it is at its select with the back channel
\* ready, which the biased select takes before any further value.
C8_SendErrorHandling ==
    [][(s_pc = "sending" /\ wlast'.op = "send_err") =>
        /\ errq_s' = try_send(errq_s, IF wlast'.flag THEN "SendItem" ELSE "SendClosed")
        /\ wlast'.flag => s_pc' = "select"
        /\ ~wlast'.flag => (s_pc' = "done" \/ (s_pc' = "select" /\ BackReady'))]_vars

\* C9 as stated: whenever remote_rx.recv() has yielded an error, the local
\* watch holds Err(RecvError::RemoteReceive(err)) after recv_impl has dealt
\* with it, and recv_impl ends after a final error and keeps running after
\* any other.
C9_RecvErrorAlwaysPublished ==
    [][(r_pc = "publish" /\ r_res.st = "err" /\ r_pc' # "publish") =>
        /\ rval'.st = "RemoteReceive"
        /\ r_pc' = IF r_res.final THEN "done" ELSE "select"]_vars

\* C9: when remote_rx.recv() yields an error and the local watch still has a
\* Receiver, recv_impl publishes Err(RecvError::RemoteReceive(err)), ends
\* after a final error and keeps running after any other; when no Receiver
\* is left, tx.send fails, the watch keeps its value and recv_impl ends.
C9_RecvErrorHandling ==
    [][(r_pc = "publish" /\ r_res.st = "err" /\ r_pc' # "publish") =>
        IF receiversAlive
        THEN /\ rval' = [v |-> r_res.v, st |-> "RemoteReceive"]
             /\ r_pc' = IF r_res.final THEN "done" ELSE "select"
        ELSE /\ rval' = rval
             /\ r_pc' = "done"]_vars

\* A decode error, which is not final, was published and recv_impl is back
\* at its select.
C9_Witness ==
    /\ wlast.op = "publish_err"
    /\ ~wlast.flag
    /\ rval.st = "RemoteReceive"
    /\ r_pc = "select"

\* Both drivers wait at their select on an open connection with nothing
\* left to do.
WatchQuiet ==
    /\ conn = "up"
    /\ s_pc = "select" /\ s_seen = version
    /\ r_pc = "select" /\ receiversAlive
    /\ data = <<>> /\ back = <<>>
    /\ errq_r = <<>> /\ ~current_err

\* C10: when a value fails to decode, the local watch yields RemoteReceive,
\* a BACKCHANNEL error byte is sent back and the sender finds
\* RemoteSendError::Forward in its error queue: once the drivers have
\* nothing left to do, a watch holding RemoteReceive has its Forward.
C10_DecodeErrorBackchannel ==
    (WatchQuiet /\ rval.st = "RemoteReceive")
        => \E i \in 1 .. Len(errq_s) : errq_s[i] = "Forward"


\* C11: every inbound back-channel message whose first byte is
\* BACKCHANNEL_MSG_ERROR, once send_impl takes it from the port, makes
\* send_impl try to enqueue RemoteSendError::Forward (appended if the error
\* queue has room, dropped if not), and send_impl is at its select afterwards.
C11_ForwardTranslation ==
    [][(/\ s_pc = "select" /\ conn = "up" /\ conn' = "up"
        /\ back # <<>> /\ Head(back) = "error"
        /\ back' = Tail(back))
        => /\ errq_s' = IF Len(errq_s) < ERROR_QUEUE
                        THEN Append(errq_s, "Forward")
                        ELSE errq_s
           /\ s_pc' = "select"]_vars

\* send_impl has taken an error byte from the back channel, Forward is in
\* its error queue and it is at its select.
C11_Witness ==
    /\ wlast.op = "back_msg" /\ wlast.flag
    /\ \E i \in 1 .. Len(errq_s) : errq_s[i] = "Forward"
    /\ s_pc = "select"

(***************************************************************************)
(* The watch drivers scheduled                                             *)
(***************************************************************************)
\* A step of the task that runs send_impl.
SendStep == SendBackMsg \/ SendBackEnd \/ SendChanged \/ SendSenderGone \/ SendOk \/ SendErr

\* A step of the task that runs recv_impl.
RecvStep ==
    RecvClosed \/ RecvErrorQueue \/ RecvCurrentErr \/ RecvBackSent \/ RecvData \/ RecvPublish

\* Both drivers are spawned tasks: a driver that can take a step is
\* eventually polled.  Nothing is assumed of the endpoints around them.
WatchFairSpec == WatchSpec /\ WF_vars(SendStep) /\ WF_vars(RecvStep)

\* C12: while the connection stays up and the local watch of the receiving
\* endpoint has a Receiver, the most recently published value (one that
\* serializes and decodes) is eventually the value the receiving endpoint's
\* watch holds, whatever values were published before it; runs with error
\* reports or foreign back-channel messages from outside are left aside.
C12_LastValueObserved ==
    \A n \in 1 .. MaxPublish :
        (version = n /\ sval.kind = "ok")
            ~> \/ rval = [v |-> n, st |-> "ok"]
               \/ version # n
               \/ conn = "down" \/ ~receiversAlive
               \/ outside > 0

\* The last-value guarantee of C12 for the runs in which no send has
\* failed: the error queue of the sending endpoint is empty.
C12_LastValueWithoutSendError ==
    \A n \in 1 .. MaxPublish :
        (version = n /\ sval.kind = "ok")
            ~> \/ rval = [v |-> n, st |-> "ok"]
               \/ version # n
               \/ conn = "down" \/ ~receiversAlive
               \/ outside > 0
               \/ errq_s # <<>>

\* C13: neither error queue ever holds more than ERROR_QUEUE entries (16 in
\* the source, the capacity given to mpsc::channel); an enqueue by send_impl,
\* of Forward or of Send(kind), is one step that leaves send_impl at its
\* select or ended, never waiting for room; and on a full queue the new
\* error is dropped and the queued entries stay as they are.
C13_ErrorQueueBounded ==
    /\ [](Len(errq_s) <= ERROR_QUEUE /\ Len(errq_r) <= ERROR_QUEUE)
    /\ [][/\ (wlast'.op \in {"send_err", "back_msg"} /\ wlast' # wlast)
             => s_pc' \in {"select", "done"}
          /\ Len(errq_s) = ERROR_QUEUE => errq_s' = errq_s
          /\ Len(errq_s) < ERROR_QUEUE
             => (errq_s' = errq_s \/ (Len(errq_s') = Len(errq_s) + 1
                                      /\ SubSeq(errq_s', 1, Len(errq_s)) = errq_s))]_vars

\* A send has failed while the error queue was full of forwarded errors:
\* its Send(kind) was dropped.
C13_Witness ==
    /\ wlast.op = "send_err"
    /\ Len(errq_s) = ERROR_QUEUE
    /\ \A i \in 1 .. Len(errq_s) : errq_s[i] = "Forward"

\* C14: recv_impl sends one BACKCHANNEL error byte for each entry it takes
\* from its error queue and one for an initial current_err: taking an entry,
\* or finding current_err set, begins one raw_tx.send; that send hands
\* exactly one error byte to the port (none if the port is closed, the
\* failure being ignored) and returns to the select; the third arm clears
\* current_err, which is never set again; and recv_impl puts no error byte
\* on the port in any other step.
C14_OneByteForEachError ==
    [][/\ (r_pc = "select" /\ Len(errq_r') < Len(errq_r)) => r_pc' = "back_q"
       /\ (r_pc # "back_q" /\ r_pc' = "back_q")
            => (r_pc = "select" /\ errq_r' = Tail(errq_r))
       /\ (r_pc # "back_cur" /\ r_pc' = "back_cur")
            => (r_pc = "select" /\ current_err /\ errq_r' = errq_r)
       /\ (r_pc \in {"back_q", "back_cur"} /\ r_pc' # r_pc)
            => /\ r_pc' = "select"
               /\ back' = IF conn = "up" /\ s_pc # "done"
                          THEN Append(back, "error")
                          ELSE back
               /\ errq_r' = errq_r
               /\ current_err' = (current_err /\ r_pc = "back_q")
       /\ (r_pc \notin {"back_q", "back_cur"} /\ Len(back') > Len(back))
            => back'[Len(back')] # "error"
       /\ ~current_err => ~current_err']_vars

\* recv_impl was started with a current_err and nothing else was reported:
\* its one byte is on the port, current_err is cleared and recv_impl is back
\* at its select.
C14_Witness ==
    /\ wlast.op = "back_sent" /\ wlast.flag
    /\ outside = 0
    /\ back = <<"error">>
    /\ ~current_err
    /\ r_pc = "select"

\* C15: reporting an error never holds up the data path.  On the sending
\* side an enqueue is a try_send, one step (C13).  On the receiving side:
\* whenever recv_impl is inside the send of a BACKCHANNEL error byte and
\* remote_rx.recv() has something ready, that send can complete at once, so
\* the data is not left waiting for the port to take the byte.
C15_ReportNeverBlocksData ==
    (r_pc \in {"back_q", "back_cur"} /\ DataReady) => ENABLED RecvBackSent

\* C16: the select of send_impl is biased: when a back-channel message is
\* buffered and the local watch holds a value send_impl has not seen, both
\* at its select, the step send_impl takes is the back-channel arm on that
\* message; that step reads no value and forwards none, the value is left
\* for a later iteration.
C16_BackChannelFirst ==
    [][(s_pc = "select" /\ conn = "up" /\ back # <<>> /\ s_seen # version) =>
        /\ s_pc' # "sending"
        /\ s_seen' = s_seen /\ s_cur' = s_cur
        /\ Len(data') <= Len(data)
        /\ (<<s_pc, errq_s>>' # <<s_pc, errq_s>>) => (conn' = "up" /\ back' = Tail(back))]_vars

\* send_impl has handled a back-channel message while a value it has not
\* seen was waiting, and the value still waits.
C16_Witness ==
    /\ wlast.op = "back_msg"
    /\ s_pc = "select"
    /\ s_seen # version

\* C17: recv_impl ends when the closure is requested locally or the port
\* reports the end of the stream, and the closure comes first.  At its
\* select with no local watch Receiver left, whatever else is ready, the
\* only step recv_impl takes is the break: it publishes nothing, takes no
\* entry from the error queue, receives no data and sends no BACKCHANNEL
\* byte.  At its select with nothing but the end of the stream ready, its
\* step is the break.  Once ended it does nothing more.
C17_ClosureFirst ==
    [][/\ (r_pc = "select" /\ ~receiversAlive)
            => /\ r_pc' \in {"select", "done"}
               /\ rval' = rval
               /\ Len(errq_r') >= Len(errq_r)
               /\ Len(back') > Len(back) => back'[Len(back')] # "error"
               /\ conn' = "up" => Len(data') >= Len(data)
       /\ (/\ r_pc = "select" /\ receiversAlive
           /\ errq_r = <<>> /\ ~current_err
           /\ conn = "up" /\ data = <<>> /\ s_pc = "done")
            => r_pc' \in {"select", "done"}
       /\ r_pc = "done"
            => /\ r_pc' = "done"
               /\ rval' = rval
               /\ Len(back') <= Len(back)]_vars

\* The liveness half of C17: at its select, recv_impl ends once no local
\* watch Receiver is left, and once send_impl has ended and the port holds
\* no more data.
C17_RecvTerminates ==
    /\ (r_pc = "select" /\ ~receiversAlive) ~> r_pc = "done"
    /\ (s_pc = "done" /\ data = <<>>) ~> r_pc = "done"

\* recv_impl has ended on the closure while an error, a current_err and a
\* data message were all waiting for it.
C17_Witness ==
    /\ wlast.op = "closed"
    /\ r_pc = "done"
    /\ errq_r # <<>> /\ current_err /\ data # <<>> /\ conn = "up"

\* send_impl is at its select and its back channel yields the end of the
\* stream (recv_impl has dropped its raw_tx), a receive error (the
\* connection is lost) or an empty message; or the back channel yields
\* nothing, every value has been seen and the local watch Sender is gone.
SendMustEnd ==
    /\ s_pc = "select"
    /\ \/ conn = "down"
       \/ back = <<>> /\ r_pc = "done"
       \/ back # <<>> /\ Head(back) = "empty"
       \/ ~BackReady /\ s_seen = version /\ ~senderAlive

\* C18: when the back channel yields the end of the stream, a receive error
\* or an empty message, or when the local watch Sender is dropped, the one
\* step send_impl can take is to end.  A non-empty back-channel message
\* whose first byte is not the error tag is taken from the port and
\* ignored: nothing is enqueued and send_impl stays at its select.
C18_SendTermination ==
    /\ [](SendMustEnd => /\ ENABLED (SendStep /\ s_pc' = "done")
                         /\ ~ENABLED (SendStep /\ s_pc' # "done"))
    /\ [][(/\ s_pc = "select" /\ conn = "up" /\ conn' = "up"
           /\ back # <<>> /\ Head(back) = "other"
           /\ back' = Tail(back))
            => (errq_s' = errq_s /\ s_pc' = "select")]_vars

\* send_impl has taken a message that does not start with the error tag
\* and goes on: its error queue is empty and it is at its select.
C18_Witness ==
    /\ wlast.op = "back_msg" /\ ~wlast.flag
    /\ errq_s = <<>>
    /\ s_pc = "select"
    /\ back = <<>> /\ conn = "up" /\ r_pc # "done"

\* The one-shot sender of task t is held by a drop that has taken it from
\* the queue and is about to send on it.
SignalPending(t) == \E w \in Tasks : pc[w] = "signal" /\ InSeq(taken[w], t)

\* C19: no wake-up is lost.  A task suspended in allocate() has its one-shot
\* sender in the queue of the allocator, or has been signalled, or its
\* signal is pending in a drop that runs; and while a port is available no
\* suspended task is left in the queue: its signal is sent or pending.
C19_NoLostWakeup ==
    \A t \in Tasks : pc[t] = "wait" =>
        /\ InSeq(notify_tx, t) \/ t \in sent \/ SignalPending(t)
        /\ is_available => (t \in sent \/ SignalPending(t))

\* A drop has freed a port and has just signalled a task suspended in
\* allocate(), which has not resumed yet.
C19_Witness ==
    /\ last.op = "signal"
    /\ last.tx \in Tasks
    /\ pc[last.tx] = "wait"
    /\ last.tx \in sent
    /\ is_available

\* C20: the values send_impl forwards are an order-preserving subsequence of
\* the values published.  The value send_impl reads is the one the local
\* watch holds at that moment, the latest published, and it was published
\* after the value of the previous read; what the port is given is the value
\* read, appended behind the values given before; so the values on their
\* way, and the value being sent behind them, are in the order of their
\* publication, and none of them is newer than the latest published.
C20_ForwardedInOrder ==
    /\ [](/\ \A i \in 1 .. Len(data) :
               /\ data[i].v <= s_seen
               /\ \A j \in 1 .. Len(data) : i < j => data[i].v < data[j].v
               /\ s_pc = "sending" => data[i].v < s_cur.v
               /\ r_res.st = "ok" => r_res.v < data[i].v
          /\ s_pc = "sending" => s_cur.v = s_seen
          /\ s_seen <= version)
    /\ [][/\ (s_pc = "select" /\ s_pc' = "sending")
               => /\ s_cur' = sval
                  /\ s_cur'.v = version
                  /\ s_seen' = version
                  /\ s_seen < version
          /\ (conn' = "up" /\ Len(data') > Len(data))
               => (s_pc = "sending" /\ data' = Append(data, s_cur))]_vars

\* The first value was forwarded, received and published to the receiving
\* endpoint's watch; the second value, published later, is on its way.
C20_Witness ==
    /\ wlast.op = "send_ok"
    /\ rval = [v |-> 1, st |-> "ok"]
    /\ data = <<Value(2, "ok")>>
====
